---- MODULE Spec2Model ----
(***************************************************************************)
(* C-Invaders ("Space Invaders/main.c"): the frame loop, the three entity  *)
(* pools and the collision / game-state resolver.                          *)
(*                                                                         *)
(* Representation of the C floats.  Time is counted in milliseconds (the   *)
(* main loop derives delta from SDL_GetTicks, an integer number of ms) and *)
(* a coordinate in units of 1/PosUnit pixel.  With PosUnit = 2000 every    *)
(* product speed * multiplier * delta of the program is a whole number of  *)
(* units, so the arithmetic below is the exact real arithmetic the floats  *)
(* approximate.  A timer of 1.0 s is 1000; ENEMY_SPEED_MULT is kept as a   *)
(* number of 0.025 steps (1.0 is 40).  An (int) cast truncates toward 0.   *)
(***************************************************************************)
EXTENDS Integers, Sequences, FiniteSets, TLC

VARIABLES
    playGame,          \* static bool playGame
    gameOver,          \* static bool gameOver
    currentWave,       \* int currentWave
    enemyDir,          \* int enemyDir
    ENEMY_SPEED_MULT,  \* float ENEMY_SPEED_MULT, in steps of 0.025
    player,            \* Player player
    enemies,           \* Enemy* enemies[MAX_ENEMIES]
    bullets,           \* Bullet* bullets[MAX_PROJECTILES]
    particles,         \* Particle* particles[MAX_PARTICLES]
    pc,                \* the statement of main/update that runs next
    delta,             \* the frame's delta, in ms
    keys,              \* SDL's keyboard state array, as of the last event poll
    delayed,           \* the last frame ended in SDL_Delay(500)
    bi,                \* loop index i of checkBulletCollisions
    playerRect,        \* local playerRect of checkBulletCollisions
    frames             \* frames started so far (bounded by MaxFrames)

vars == <<playGame, gameOver, currentWave, enemyDir, ENEMY_SPEED_MULT, player,
          enemies, bullets, particles, pc, delta, keys, delayed, bi, playerRect, frames>>

-----------------------------------------------------------------------------
(* Program constants *)

WINDOW_WIDTH == 640
WINDOW_HEIGHT == 480
MAX_ENEMIES == 55
MAX_PROJECTILES == 20
MAX_PARTICLES == 20
PLAYER_SPEED == 200
ENEMY_SPEED == 20
BULLET_SPEED == 275
PLAYER_WIDTH == 20
PLAYER_HEIGHT == 20
ENEMY_WIDTH == 30
ENEMY_HEIGHT == 30
BULLET_WIDTH == 10
BULLET_HEIGHT == 15

(* Units *)
PosUnit == 2000
MsPerSecond == 1000
MultUnit == 40

(* Bounds of the exploration: frames per run, and enemies whose draw of *)
(* rand() % 5000 falls below 10 in one frame                           *)
MaxFrames == 2
MaxShots == 1

(* Largest wave number of the wave-spawning specification *)
MaxWave == 60

(* Frame deltas (ms) the main loop may measure, and the keyboard states *)
Deltas == {16, 500}
DelayMs == 500
NoKeys == [left |-> FALSE, right |-> FALSE, space |-> FALSE]
KeyStates ==
    { [left |-> FALSE, right |-> FALSE, space |-> FALSE],
      [left |-> TRUE,  right |-> FALSE, space |-> FALSE],
      [left |-> FALSE, right |-> FALSE, space |-> TRUE],
      [left |-> FALSE, right |-> TRUE,  space |-> TRUE] }
(* Values of rand() % 5000 on either side of the firing threshold *)
RandValues == {9, 10}

NULL == [null |-> TRUE]
NoRect == [x |-> 0, y |-> 0, w |-> 0, h |-> 0]
BULLET_EXPLOSION == "BULLET_EXPLOSION"
SHIP_EXPLOSION == "SHIP_EXPLOSION"

EnemySlots == 0 .. (MAX_ENEMIES - 1)
BulletSlots == 0 .. (MAX_PROJECTILES - 1)
ParticleSlots == 0 .. (MAX_PARTICLES - 1)

-----------------------------------------------------------------------------
(* Arithmetic helpers *)

\* a whole number of pixels as a coordinate
Px(n) == n * PosUnit

\* (int) cast of a float coordinate: truncation toward zero, in pixels
IntCast(v) == IF v >= 0 THEN v \div PosUnit ELSE -((-v) \div PosUnit)

\* speed (px/s) * delta (ms), in coordinate units
Travel(speed, ms) == speed * ms * (PosUnit \div MsPerSecond)

\* C max macro
max(a, b) == IF a > b THEN a ELSE b

\* SDL_HasIntersection(A, B)
SDL_HasIntersection(A, B) ==
    /\ A.w > 0 /\ A.h > 0 /\ B.w > 0 /\ B.h > 0
    /\ max(A.x, B.x) < (IF A.x + A.w < B.x + B.w THEN A.x + A.w ELSE B.x + B.w)
    /\ max(A.y, B.y) < (IF A.y + A.h < B.y + B.h THEN A.y + A.h ELSE B.y + B.h)

RectOf(e, w, h) == [x |-> IntCast(e.px), y |-> IntCast(e.py), w |-> w, h |-> h]

-----------------------------------------------------------------------------
(* Player *)

createPlayer(p) ==
    [px |-> Px(WINDOW_WIDTH \div 2),
     py |-> Px(WINDOW_HEIGHT - (WINDOW_HEIGHT \div 14)),
     score |-> 0,
     hiScore |-> 0,
     livesLeft |-> 3,
     shootTimer |-> 0]

(* Bullets *)

\* a scan that ends at slot 0 when the loop runs out
FirstFreeOrZero(pool, lo, hi) ==
    IF \E i \in lo .. (hi - 1) : pool[i] = NULL
    THEN CHOOSE i \in lo .. (hi - 1) :
             pool[i] = NULL /\ \A k \in lo .. (i - 1) : pool[k] # NULL
    ELSE 0

\* the scan "for (i = lo; i < hi; i++) if (pool[i] == NULL) {...; break;}":
\* the slot it stops at, or hi when the loop runs out; the lower half of the
\* range is scanned first, the upper half only if no slot was found there
RECURSIVE FirstFreeIn(_, _, _)
FirstFreeIn(pool, lo, hi) ==
    IF hi - lo <= 1 THEN (IF pool[lo] = NULL THEN lo ELSE hi)
    ELSE LET i == FirstFreeIn(pool, lo, (lo + hi) \div 2)
         IN  IF i < (lo + hi) \div 2 THEN i ELSE FirstFreeIn(pool, (lo + hi) \div 2, hi)

createBullet(bs, ipx, ipy, dir) ==
    LET w_offset == IF dir = -1 THEN PLAYER_WIDTH \div 2
                    ELSE IF dir = 1 THEN ENEMY_WIDTH \div 2 ELSE 0
        h_offset == IF dir = -1 THEN PLAYER_HEIGHT \div 2
                    ELSE IF dir = 1 THEN ENEMY_HEIGHT \div 2 ELSE 0
        i == FirstFreeIn(bs, 0, MAX_PROJECTILES)
    IN  IF i < MAX_PROJECTILES
        THEN [bs EXCEPT ![i] = [px |-> Px(ipx + w_offset),
                                py |-> Px(ipy + h_offset),
                                vy |-> dir]]
        ELSE bs

(* Particles *)

createParticle(ps, particle) ==
    LET i == FirstFreeIn(ps, 0, MAX_PARTICLES)
    IN  IF i < MAX_PARTICLES
        THEN [ps EXCEPT ![i] = [px |-> particle.px,
                                py |-> particle.py,
                                lifetime |-> particle.lifetime,
                                particleType |-> particle.particleType]]
        ELSE ps

updateParticles(ps, ms) ==
    [i \in ParticleSlots |->
        IF ps[i] # NULL
        THEN IF ps[i].lifetime - ms <= 0 THEN NULL
             ELSE [ps[i] EXCEPT !.lifetime = ps[i].lifetime - ms]
        ELSE NULL]

\* updatePlayer with "shootTimer -= delta" ahead of the shot
updatePlayerTimerFirst(p, bs, state, ms) ==
    LET p1 == IF state.right THEN [p EXCEPT !.px = p.px + Travel(PLAYER_SPEED, ms)] ELSE p
        p2 == IF state.left THEN [p1 EXCEPT !.px = p1.px - Travel(PLAYER_SPEED, ms)] ELSE p1
        p3 == [p2 EXCEPT !.shootTimer = p2.shootTimer - ms]
        fire == state.space /\ p3.shootTimer <= 0
    IN  [player |-> IF fire THEN [p3 EXCEPT !.shootTimer = MsPerSecond] ELSE p3,
         bullets |-> IF fire THEN createBullet(bs, IntCast(p3.px), IntCast(p3.py), -1)
                     ELSE bs]

updatePlayer(p, bs, state, ms) ==
    LET p1 == IF state.right THEN [p EXCEPT !.px = p.px + Travel(PLAYER_SPEED, ms)] ELSE p
        p2 == IF state.left THEN [p1 EXCEPT !.px = p1.px - Travel(PLAYER_SPEED, ms)] ELSE p1
        fire == state.space /\ p2.shootTimer <= 0
        bs2 == IF fire THEN createBullet(bs, IntCast(p2.px), IntCast(p2.py), -1) ELSE bs
        p3 == IF fire THEN [p2 EXCEPT !.shootTimer = MsPerSecond] ELSE p2
    IN  [player |-> [p3 EXCEPT !.shootTimer = p3.shootTimer - ms], bullets |-> bs2]

\* updateBullet that releases a bullet only if its particle found a slot
updateBulletNeedsParticle(st, i, ms) ==
    IF st.bullets[i] # NULL
    THEN LET py == st.bullets[i].py + st.bullets[i].vy * Travel(BULLET_SPEED, ms)
             moved == [st.bullets EXCEPT ![i].py = py]
         IN  IF py < 0 \/ py > Px(WINDOW_HEIGHT - BULLET_HEIGHT)
             THEN IF FirstFreeIn(st.particles, 0, MAX_PARTICLES) < MAX_PARTICLES
                  THEN [bullets |-> [st.bullets EXCEPT ![i] = NULL],
                        particles |-> createParticle(st.particles,
                                          [px |-> st.bullets[i].px, py |-> py,
                                           lifetime |-> MsPerSecond \div 2,
                                           particleType |-> BULLET_EXPLOSION])]
                  ELSE [bullets |-> moved, particles |-> st.particles]
             ELSE [bullets |-> moved, particles |-> st.particles]
    ELSE st

\* updateBullet with the lower bound at WINDOW_HEIGHT, the bullet's height
\* forgotten
updateBulletToWindowEdge(st, i, ms) ==
    IF st.bullets[i] # NULL
    THEN LET py == st.bullets[i].py + st.bullets[i].vy * Travel(BULLET_SPEED, ms)
         IN  IF py < 0 \/ py > Px(WINDOW_HEIGHT)
             THEN [bullets |-> [st.bullets EXCEPT ![i] = NULL],
                   particles |-> createParticle(st.particles,
                                     [px |-> st.bullets[i].px, py |-> py,
                                      lifetime |-> MsPerSecond \div 2,
                                      particleType |-> BULLET_EXPLOSION])]
             ELSE [bullets |-> [st.bullets EXCEPT ![i].py = py],
                   particles |-> st.particles]
    ELSE st

\* the body of the loop of updateBullets for slot i; st is the record
\* bullets, particles
updateBullet(st, i, ms) ==
    IF st.bullets[i] # NULL
    THEN LET py == st.bullets[i].py + st.bullets[i].vy * Travel(BULLET_SPEED, ms)
         IN  IF py < 0 \/ py > Px(WINDOW_HEIGHT - BULLET_HEIGHT)
             THEN [bullets |-> [st.bullets EXCEPT ![i] = NULL],
                   particles |-> createParticle(st.particles,
                                     [px |-> st.bullets[i].px, py |-> py,
                                      lifetime |-> MsPerSecond \div 2,
                                      particleType |-> BULLET_EXPLOSION])]
             ELSE [bullets |-> [st.bullets EXCEPT ![i].py = py],
                   particles |-> st.particles]
    ELSE st

\* the loop of updateBullets over the slots lo .. hi - 1, in order: the
\* lower half of the range, then the upper half from the state that leaves
RECURSIVE updateBulletsIn(_, _, _, _)
updateBulletsIn(st, lo, hi, ms) ==
    IF hi - lo <= 1 THEN updateBullet(st, lo, ms)
    ELSE CHOOSE end \in
             {updateBulletsIn(mid, (lo + hi) \div 2, hi, ms) :
                 mid \in {updateBulletsIn(st, lo, (lo + hi) \div 2, ms)}} : TRUE

updateBullets(bs, ps, ms) ==
    updateBulletsIn([bullets |-> bs, particles |-> ps], 0, MAX_PROJECTILES, ms)

-----------------------------------------------------------------------------
(* Enemies *)

\* NewEnemy without the lower limit of the shootTimer
NewEnemyNoLimit(i, w) ==
    LET px == i % 11
        py == i \div 11
    IN  [px |-> Px(px * ENEMY_WIDTH + 10 * px + 100),
         py |-> Px(py * ENEMY_HEIGHT + 10 * py + 100),
         killReward |-> 10 * w,
         shootTimer |-> MsPerSecond - (MsPerSecond \div 20) * w]

\* the Enemy createEnemies builds in slot i for wave w
NewEnemy(i, w) ==
    LET px == i % 11
        py == i \div 11
    IN  [px |-> Px(px * ENEMY_WIDTH + 10 * px + 100),
         py |-> Px(py * ENEMY_HEIGHT + 10 * py + 100),
         killReward |-> 10 * w,
         shootTimer |-> max(MsPerSecond \div 5, MsPerSecond - (MsPerSecond \div 20) * w)]

createEnemies(w) == [i \in EnemySlots |-> NewEnemy(i, w)]

freeEnemies == [i \in EnemySlots |-> NULL]
freeBullets == [i \in BulletSlots |-> NULL]
freeParticles == [i \in ParticleSlots |-> NULL]

\* first loop of updateEnemies: every live enemy moves
MoveEnemies(es, dir, mult, ms) ==
    LET step == (Travel(ENEMY_SPEED, ms) * mult) \div MultUnit
    IN  [i \in EnemySlots |->
            IF es[i] # NULL
            THEN [es[i] EXCEPT !.px = IF dir = 1 THEN es[i].px + step ELSE es[i].px - step]
            ELSE NULL]

\* first loop of updateEnemies: an enemy too close to the player
TooLow(es) ==
    \E i \in EnemySlots :
        es[i] # NULL /\ es[i].py > Px(WINDOW_HEIGHT - PLAYER_HEIGHT * 2 - ENEMY_HEIGHT)

\* second loop of updateEnemies: some live enemy is too close to an edge
AtEdge(es) ==
    \E i \in EnemySlots :
        /\ es[i] # NULL
        /\ \/ es[i].px < Px(0 + ENEMY_WIDTH)
           \/ es[i].px > Px(WINDOW_WIDTH - 2 * ENEMY_WIDTH)

MoveDown(es) ==
    [i \in EnemySlots |->
        IF es[i] # NULL THEN [es[i] EXCEPT !.py = es[i].py + Px(ENEMY_HEIGHT \div 4)]
        ELSE NULL]

updateEnemies(es, dir, mult, over, ms) ==
    LET moved == MoveEnemies(es, dir, mult, ms)
        over1 == over \/ TooLow(moved)
    IN  IF AtEdge(moved)
        THEN [enemies |-> MoveDown(moved), enemyDir |-> -dir,
              mult |-> mult + 1, gameOver |-> over1]
        ELSE [enemies |-> moved, enemyDir |-> dir, mult |-> mult, gameOver |-> over1]


\* enemyShoot.  A scan state st is the record enemies, bullets, found
\* (the positions j with found[j] = 1); draws[index] is the value of
\* rand() % 5000 for enemy index.

\* the body of the inner loop with "found[j] = 1" ahead of the test for a
\* live enemy: a position is used up by the first slot visited
enemyShootAtMarksAll(st, index, j, draws, ms) ==
    IF j \notin st.found
    THEN IF st.enemies[index] # NULL
         THEN LET fire == st.enemies[index].shootTimer <= 0 /\ draws[index] < 10
                  timer == IF fire THEN MsPerSecond ELSE st.enemies[index].shootTimer
              IN  [enemies |-> [st.enemies EXCEPT ![index].shootTimer = timer - ms],
                   bullets |-> IF fire
                               THEN createBullet(st.bullets, IntCast(st.enemies[index].px),
                                                 IntCast(st.enemies[index].py), 1)
                               ELSE st.bullets,
                   found |-> st.found \cup {j}]
         ELSE [st EXCEPT !.found = @ \cup {j}]
    ELSE st

\* the body of the inner loop without "&& enemies[index]->shootTimer <= 0"
enemyShootAtAnyTimer(st, index, j, draws, ms) ==
    IF st.enemies[index] # NULL /\ j \notin st.found
    THEN LET fire == draws[index] < 10
             timer == IF fire THEN MsPerSecond ELSE st.enemies[index].shootTimer
         IN  [enemies |-> [st.enemies EXCEPT ![index].shootTimer = timer - ms],
              bullets |-> IF fire
                          THEN createBullet(st.bullets, IntCast(st.enemies[index].px),
                                            IntCast(st.enemies[index].py), 1)
                          ELSE st.bullets,
              found |-> st.found \cup {j}]
    ELSE st

\* the body of the inner loop, before "index--"; the draw decides
\* something only if the enemy's shootTimer is not positive
enemyShootAt(st, index, j, draws, ms) ==
    IF st.enemies[index] # NULL /\ j \notin st.found
    THEN LET fire == st.enemies[index].shootTimer <= 0 /\ draws[index] < 10
             timer == IF fire THEN MsPerSecond ELSE st.enemies[index].shootTimer
         IN  [enemies |-> [st.enemies EXCEPT ![index].shootTimer = timer - ms],
              bullets |-> IF fire
                          THEN createBullet(st.bullets, IntCast(st.enemies[index].px),
                                            IntCast(st.enemies[index].py), 1)
                          ELSE st.bullets,
              found |-> st.found \cup {j}]
    ELSE st

\* the two loops of enemyShoot over the iterations lo .. hi - 1 of the 5 * 11,
\* in order; iteration k is j = k mod 11 of pass k div 11, where index is
\* MAX_ENEMIES - 1 less the k decrements so far
RECURSIVE enemyShootIn(_, _, _, _, _)
enemyShootIn(st, lo, hi, draws, ms) ==
    IF hi - lo <= 1 THEN enemyShootAt(st, MAX_ENEMIES - 1 - lo, lo % 11, draws, ms)
    ELSE CHOOSE end \in
             {enemyShootIn(mid, (lo + hi) \div 2, hi, draws, ms) :
                 mid \in {enemyShootIn(st, lo, (lo + hi) \div 2, draws, ms)}} : TRUE

enemyShoot(es, bs, draws, ms) ==
    LET st == enemyShootIn([enemies |-> es, bullets |-> bs, found |-> {}],
                           0, 5 * 11, draws, ms)
    IN  [enemies |-> st.enemies, bullets |-> st.bullets]

\* the enemies the scan of enemyShoot selects (those it calls rand() for):
\* found[j] is set by the first live enemy met at position j, and index
\* falls by 11 from one pass to the next
Scanned(es) ==
    {index \in EnemySlots :
        /\ es[index] # NULL
        /\ \A k \in EnemySlots : (k > index /\ (k - index) % 11 = 0) => es[k] = NULL}

\* the selected enemies whose draw decides something (shootTimer <= 0)
Armed(es) == {i \in Scanned(es) : es[i].shootTimer <= 0}

-----------------------------------------------------------------------------
(* Collisions.  A resolver state s is the record of what the function      *)
(* reads and writes: player, enemies, bullets, particles, gameOver.        *)

\* the body of the inner loop without its "if (bullets[i])": a released
\* bullet goes on hitting
HitEnemyReleased(s, i, bulletRect, j) ==
    IF /\ s.enemies[j] # NULL
       /\ SDL_HasIntersection(bulletRect, RectOf(s.enemies[j], ENEMY_WIDTH, ENEMY_HEIGHT))
       /\ (s.bullets[i] = NULL \/ s.bullets[i].vy # 1)
    THEN LET enemyRect == RectOf(s.enemies[j], ENEMY_WIDTH, ENEMY_HEIGHT)
             particle == [px |-> Px(enemyRect.x), py |-> Px(enemyRect.y),
                          lifetime |-> MsPerSecond \div 2,
                          particleType |-> SHIP_EXPLOSION]
         IN  [s EXCEPT !.player.score = @ + s.enemies[j].killReward,
                       !.particles = createParticle(@, particle),
                       !.enemies[j] = NULL,
                       !.bullets[i] = NULL]
    ELSE s

\* the body of the inner loop of checkBulletCollisions: bullet i, enemy j
HitEnemy(s, i, bulletRect, j) ==
    IF /\ s.enemies[j] # NULL
       /\ s.bullets[i] # NULL
       /\ SDL_HasIntersection(bulletRect, RectOf(s.enemies[j], ENEMY_WIDTH, ENEMY_HEIGHT))
       /\ s.bullets[i].vy # 1
    THEN LET enemyRect == RectOf(s.enemies[j], ENEMY_WIDTH, ENEMY_HEIGHT)
             particle == [px |-> Px(enemyRect.x), py |-> Px(enemyRect.y),
                          lifetime |-> MsPerSecond \div 2,
                          particleType |-> SHIP_EXPLOSION]
         IN  [s EXCEPT !.player.score = @ + s.enemies[j].killReward,
                       !.particles = createParticle(@, particle),
                       !.enemies[j] = NULL,
                       !.bullets[i] = NULL]
    ELSE s

\* the inner loop over the enemies lo .. hi - 1, in order
RECURSIVE HitEnemiesIn(_, _, _, _, _)
HitEnemiesIn(s, i, bulletRect, lo, hi) ==
    IF hi - lo <= 1 THEN HitEnemy(s, i, bulletRect, lo)
    ELSE CHOOSE end \in
             {HitEnemiesIn(mid, i, bulletRect, (lo + hi) \div 2, hi) :
                 mid \in {HitEnemiesIn(s, i, bulletRect, lo, (lo + hi) \div 2)}} : TRUE

\* the player test without its "vy != -1"
HitPlayerAnyDirection(s, i, bulletRect, prect) ==
    IF /\ s.bullets[i] # NULL
       /\ SDL_HasIntersection(bulletRect, prect)
    THEN LET particle == [px |-> s.bullets[i].px, py |-> s.bullets[i].py,
                          lifetime |-> MsPerSecond \div 2,
                          particleType |-> SHIP_EXPLOSION]
         IN  [s EXCEPT !.particles = createParticle(@, particle),
                       !.bullets[i] = NULL,
                       !.player.livesLeft = @ - 1,
                       !.gameOver = @ \/ (s.player.livesLeft - 1 <= 0),
                       !.player.px = Px(WINDOW_WIDTH \div 2),
                       !.player.py = Px(WINDOW_HEIGHT - (WINDOW_HEIGHT \div 14))]
    ELSE s

\* the player test with "livesLeft < 0" for "livesLeft <= 0"
HitPlayerBelowZero(s, i, bulletRect, prect) ==
    IF /\ s.bullets[i] # NULL
       /\ SDL_HasIntersection(bulletRect, prect)
       /\ s.bullets[i].vy # -1
    THEN LET particle == [px |-> s.bullets[i].px, py |-> s.bullets[i].py,
                          lifetime |-> MsPerSecond \div 2,
                          particleType |-> SHIP_EXPLOSION]
         IN  [s EXCEPT !.particles = createParticle(@, particle),
                       !.bullets[i] = NULL,
                       !.player.livesLeft = @ - 1,
                       !.gameOver = @ \/ (s.player.livesLeft - 1 < 0),
                       !.player.px = Px(WINDOW_WIDTH \div 2),
                       !.player.py = Px(WINDOW_HEIGHT - (WINDOW_HEIGHT \div 14))]
    ELSE s

\* the test of bullet i against the player rect, after the enemy loop
HitPlayer(s, i, bulletRect, prect) ==
    IF /\ s.bullets[i] # NULL
       /\ SDL_HasIntersection(bulletRect, prect)
       /\ s.bullets[i].vy # -1
    THEN LET particle == [px |-> s.bullets[i].px, py |-> s.bullets[i].py,
                          lifetime |-> MsPerSecond \div 2,
                          particleType |-> SHIP_EXPLOSION]
         IN  [s EXCEPT !.particles = createParticle(@, particle),
                       !.bullets[i] = NULL,
                       !.player.livesLeft = @ - 1,
                       !.gameOver = @ \/ (s.player.livesLeft - 1 <= 0),
                       !.player.px = Px(WINDOW_WIDTH \div 2),
                       !.player.py = Px(WINDOW_HEIGHT - (WINDOW_HEIGHT \div 14))]
    ELSE s

\* one iteration of the outer loop of checkBulletCollisions
CollideBullet(s, i, prect) ==
    IF s.bullets[i] = NULL THEN s
    ELSE LET bulletRect == RectOf(s.bullets[i], BULLET_WIDTH, BULLET_HEIGHT)
         IN  HitPlayer(HitEnemiesIn(s, i, bulletRect, 0, MAX_ENEMIES), i, bulletRect, prect)

-----------------------------------------------------------------------------
(* Game state.  A state g is the record player, enemies, bullets, gameOver, *)
(* currentWave.                                                             *)

\* the spawnNextWave scan
NoEnemies(es) == \A i \in EnemySlots : es[i] = NULL

\* GameOverReset without "player->hiScore = tempScore"
GameOverResetLosesHiScore(g) ==
    IF g.gameOver
    THEN [g EXCEPT !.player = createPlayer(g.player),
                   !.enemies = createEnemies(g.currentWave),
                   !.bullets = freeBullets,
                   !.gameOver = FALSE]
    ELSE g

\* GameOverReset without the comparison: the score becomes the high score
GameOverResetTakesScore(g) ==
    IF g.gameOver
    THEN [g EXCEPT !.player = [createPlayer(g.player) EXCEPT !.hiScore = g.player.score],
                   !.enemies = createEnemies(g.currentWave),
                   !.bullets = freeBullets,
                   !.gameOver = FALSE]
    ELSE g

\* GameOverReset without "gameOver = false"
GameOverResetKeepsFlag(g) ==
    IF g.gameOver
    THEN LET tempScore == IF g.player.score > g.player.hiScore
                          THEN g.player.score ELSE g.player.hiScore
         IN  [g EXCEPT !.player = [createPlayer(g.player) EXCEPT !.hiScore = tempScore],
                       !.enemies = createEnemies(g.currentWave),
                       !.bullets = freeBullets]
    ELSE g

\* GameOverReset that starts over at wave 1
GameOverResetToFirstWave(g) ==
    IF g.gameOver
    THEN LET tempScore == IF g.player.score > g.player.hiScore
                          THEN g.player.score ELSE g.player.hiScore
         IN  [g EXCEPT !.player = [createPlayer(g.player) EXCEPT !.hiScore = tempScore],
                       !.enemies = createEnemies(1),
                       !.bullets = freeBullets,
                       !.gameOver = FALSE,
                       !.currentWave = 1]
    ELSE g

\* the "if (gameOver)" branch of checkGameState
GameOverReset(g) ==
    IF g.gameOver
    THEN LET tempScore == IF g.player.score > g.player.hiScore
                          THEN g.player.score ELSE g.player.hiScore
         IN  [g EXCEPT !.player = [createPlayer(g.player) EXCEPT !.hiScore = tempScore],
                       !.enemies = createEnemies(g.currentWave),
                       !.bullets = freeBullets,
                       !.gameOver = FALSE]
    ELSE g

\* WaveClear with createEnemies ahead of "currentWave += 1"
WaveClearSpawnsFirst(g) ==
    IF NoEnemies(g.enemies)
    THEN [g EXCEPT !.currentWave = @ + 1,
                   !.enemies = createEnemies(g.currentWave),
                   !.player.livesLeft = 3]
    ELSE g

\* WaveClear that frees the bullets as the game-over branch does
WaveClearFreesBullets(g) ==
    IF NoEnemies(g.enemies)
    THEN [g EXCEPT !.currentWave = @ + 1,
                   !.enemies = createEnemies(g.currentWave + 1),
                   !.bullets = freeBullets,
                   !.player.livesLeft = 3]
    ELSE g

\* the "if (spawnNextWave)" branch of checkGameState
WaveClear(g) ==
    IF NoEnemies(g.enemies)
    THEN [g EXCEPT !.currentWave = @ + 1,
                   !.enemies = createEnemies(g.currentWave + 1),
                   !.player.livesLeft = 3]
    ELSE g

\* checkGameState with the two branches in the other order
checkGameStateWaveFirst(g) ==
    LET h == IF NoEnemies(g.enemies)
             THEN [g EXCEPT !.currentWave = @ + 1,
                            !.enemies = createEnemies(g.currentWave + 1),
                            !.player.livesLeft = 3]
             ELSE g
    IN  IF h.gameOver
        THEN [h EXCEPT !.player = [createPlayer(h.player) EXCEPT
                                       !.hiScore = IF h.player.score > h.player.hiScore
                                                   THEN h.player.score
                                                   ELSE h.player.hiScore],
                       !.enemies = createEnemies(h.currentWave),
                       !.bullets = freeBullets,
                       !.gameOver = FALSE]
        ELSE h

checkGameState(g) == WaveClear(GameOverReset(g))

-----------------------------------------------------------------------------
(* Initial states.  InitialState is the state init() leaves.  The others   *)
(* are frame-boundary states of a game in progress, each with the play     *)
(* that leads to it; ENEMY_SPEED_MULT and enemyDir agree on the number of  *)
(* reversals so far, every enemy is at its grid place plus the formation's *)
(* common offset, and no bullet overlaps a target it could have hit.       *)

\* a coordinate of whole pixels and thousandths
Pos(whole, milli) == whole * PosUnit + milli * (PosUnit \div MsPerSecond)

\* the score of a game that cleared waves 1 .. w-1 without a game over
ClearedScore(w) == (55 * 10 * w * (w - 1)) \div 2

\* the pool holding the enemies of live, moved (offX, offY) from the grid
Formation(w, live, offX, offY, timers) ==
    [i \in EnemySlots |->
        IF i \in live
        THEN [NewEnemy(i, w) EXCEPT !.px = @ + offX, !.py = @ + offY,
                                    !.shootTimer = timers[i]]
        ELSE NULL]

PoolOf(slots, entries) ==
    [i \in slots |-> IF i \in DOMAIN entries THEN entries[i] ELSE NULL]

Boundary(fields) ==
    [playGame |-> TRUE, gameOver |-> FALSE, pc |-> "main", delta |-> 16,
     keys |-> NoKeys, delayed |-> FALSE, bi |-> 0, playerRect |-> NoRect, frames |-> 0] @@ fields

InitialState ==
    [playGame |-> FALSE, gameOver |-> FALSE, currentWave |-> 1, enemyDir |-> 1,
     ENEMY_SPEED_MULT |-> MultUnit, player |-> createPlayer(NULL),
     enemies |-> createEnemies(1), bullets |-> freeBullets,
     particles |-> freeParticles, pc |-> "main", delta |-> 0, keys |-> NoKeys,
     delayed |-> FALSE,
     bi |-> 0, playerRect |-> NoRect, frames |-> 0]

\* Wave w, one enemy left (slot 27) after 8 reversals of this wave; the
\* player's bullet is one short frame below it, the enemy's bullet one short
\* frame above the player, who can still step out of its way to the right.
Duel(w) ==
    Boundary(
    [currentWave |-> w, enemyDir |-> 1,
     ENEMY_SPEED_MULT |-> MultUnit + (IF w = 1 THEN 8 ELSE 20),
     player |-> [px |-> Px(317), py |-> Px(446),
                 score |-> ClearedScore(w) + 10 * w * 54, hiScore |-> 0,
                 livesLeft |-> IF w = 1 THEN 1 ELSE 2, shootTimer |-> 316],
     enemies |-> Formation(w, {27}, Pos(10, 400), Px(56), (27 :> 333)),
     bullets |-> PoolOf(BulletSlots,
                    (0 :> [px |-> Px(320), py |-> Pos(267, 900), vy |-> -1]) @@
                    (1 :> [px |-> Px(309), py |-> Pos(430, 25), vy |-> 1])),
     particles |-> freeParticles])

\* Wave 1 again after a game over at score 540: enemies 16 and 27 (one
\* column, rows 1 and 2) are left; a long frame takes the player's bullet
\* into both rects at once and the enemy's bullet into the player.
Skirmish ==
    Boundary(
    [currentWave |-> 1, enemyDir |-> 1, ENEMY_SPEED_MULT |-> MultUnit + 10,
     player |-> [px |-> Px(310), py |-> Px(446), score |-> 530, hiScore |-> 540,
                 livesLeft |-> 1, shootTimer |-> 553],
     enemies |-> Formation(1, {16, 27}, Pos(6, 500), Px(28),
                           (16 :> 950) @@ (27 :> 700)),
     bullets |-> PoolOf(BulletSlots,
                    (0 :> [px |-> Px(325), py |-> Pos(333, 75), vy |-> -1]) @@
                    (1 :> [px |-> Px(314), py |-> Pos(305, 500), vy |-> 1])),
     particles |-> freeParticles])

\* The same formation with enemy 3 as well, no bullet in flight: the player
\* (between two pixels) and enemy 3 are both ready to shoot.
Patrol ==
    Boundary(
    [currentWave |-> 1, enemyDir |-> 1, ENEMY_SPEED_MULT |-> MultUnit + 10,
     player |-> [px |-> Pos(301, 600), py |-> Px(446), score |-> 520,
                 hiScore |-> 540, livesLeft |-> 2, shootTimer |-> -300],
     enemies |-> Formation(1, {3, 16, 27}, Pos(6, 500), Px(28),
                           (3 :> -100) @@ (16 :> 950) @@ (27 :> 120)),
     bullets |-> freeBullets,
     particles |-> freeParticles])

\* Wave 1, the last enemy (slot 49) has come down 22 reversals, the last of
\* them in the previous frame at the left edge; the player, under it, fired
\* two short frames ago, and the enemy fired in the previous frame, from
\* where it is now.  An earlier game of the run ended at 550 points.
LowFormation ==
    Boundary(
    [currentWave |-> 1, enemyDir |-> 1, ENEMY_SPEED_MULT |-> MultUnit + 22,
     player |-> [px |-> Pos(25, 600), py |-> Px(446), score |-> 540, hiScore |-> 550,
                 livesLeft |-> 3, shootTimer |-> 968],
     enemies |-> Formation(1, {49}, Pos(-270, -288), Px(154), (49 :> 984)),
     bullets |-> PoolOf(BulletSlots,
                    (0 :> [px |-> Px(35), py |-> Pos(447, 200), vy |-> -1]) @@
                    (1 :> [px |-> Px(44), py |-> Px(429), vy |-> 1])),
     particles |-> freeParticles])

\* Wave 1, 2374 ms into the game, nobody hit.  The player fired once (slot
\* 0); in a frame of 1000 ms the bottom row but enemy 44 fired (slots 1..10);
\* in the next frame the player's bullet left the screen (a particle) and
\* the same ten fired again (slot 0, slots 11..19); thirteen short frames
\* later the pool is still full and enemy 44 has yet to fire.
Volley ==
    Boundary(
    [currentWave |-> 1, enemyDir |-> 1, ENEMY_SPEED_MULT |-> MultUnit,
     player |-> [px |-> Px(320), py |-> Px(446), score |-> 0, hiScore |-> 0,
                 livesLeft |-> 3, shootTimer |-> -874],
     enemies |-> Formation(1, EnemySlots, Pos(47, 480), 0,
                    [i \in EnemySlots |->
                        IF i >= 45 THEN 776 ELSE IF i = 44 THEN -1424 ELSE 950]),
     bullets |-> [s \in BulletSlots |->
                    IF s = 0 THEN [px |-> Px(558), py |-> Pos(332, 200), vy |-> 1]
                    ELSE IF s <= 10
                    THEN [px |-> Px(158 + 40 * (11 - s)), py |-> Pos(336, 600), vy |-> 1]
                    ELSE [px |-> Px(158 + 40 * (20 - s)), py |-> Pos(332, 200), vy |-> 1]],
     particles |-> PoolOf(ParticleSlots,
                    (0 :> [px |-> Px(330), py |-> Pos(-2, -150), lifetime |-> 276,
                           particleType |-> BULLET_EXPLOSION]))])

\* the slots of grid column c
Column(c) == {i \in EnemySlots : i % 11 = c}

\* Wave 1 with one column left (score 500) and the formation a fifth of a
\* pixel short of the edge it is heading for: column 10 going right after 8
\* reversals (dir = 1), column 0 going left after 9 (dir = -1).  The column's
\* bottom enemy has been ready to shoot for two seconds, the player for half
\* a second.
Sweep(dir) ==
    LET reversals == IF dir = 1 THEN 8 ELSE 9
        col == IF dir = 1 THEN 10 ELSE 0
        offX == IF dir = 1 THEN Pos(79, 800) ELSE Pos(-69, -800)
    IN  Boundary(
        [currentWave |-> 1, enemyDir |-> dir,
         ENEMY_SPEED_MULT |-> MultUnit + reversals,
         player |-> [px |-> Px(320), py |-> Px(446), score |-> 500, hiScore |-> 0,
                     livesLeft |-> 3, shootTimer |-> -500],
         enemies |-> Formation(1, Column(col), offX, Px(reversals * (ENEMY_HEIGHT \div 4)),
                        [i \in EnemySlots |-> IF i >= 44 THEN -2000 ELSE 950]),
         bullets |-> freeBullets,
         particles |-> freeParticles])

\* Wave 1 on the last life, after 20 reversals, enemies 16 and 48 left.
\* Enemy 16 fired 30 short frames ago and enemy 48, which had by then come
\* 13 pixels closer, three frames ago: their bullets, 27 pixels apart, are
\* both one short frame above the player, who stands under both.
Crossfire ==
    Boundary(
    [currentWave |-> 1, enemyDir |-> 1, ENEMY_SPEED_MULT |-> MultUnit + 20,
     player |-> [px |-> Pos(301, 600), py |-> Px(446), score |-> 530, hiScore |-> 0,
                 livesLeft |-> 1, shootTimer |-> -300],
     enemies |-> Formation(1, {16, 48}, Px(20), Px(140), (16 :> 504) @@ (48 :> 936)),
     bullets |-> PoolOf(BulletSlots,
                    (0 :> [px |-> Px(320), py |-> Px(427), vy |-> 1]) @@
                    (1 :> [px |-> Px(293), py |-> Pos(428, 200), vy |-> 1])),
     particles |-> freeParticles])

\* Wave 2 on the last life, going left after 21 reversals (12 in wave 1, 9
\* in this wave), enemy 27 left.  It fired 0.63 s ago, 19 pixels further to
\* the right; its bullet is one short frame above the player, who cannot
\* shoot yet.
LastStand ==
    Boundary(
    [currentWave |-> 2, enemyDir |-> -1, ENEMY_SPEED_MULT |-> MultUnit + 21,
     player |-> [px |-> Px(317), py |-> Px(446),
                 score |-> ClearedScore(2) + 20 * 54, hiScore |-> 0,
                 livesLeft |-> 1, shootTimer |-> 316],
     enemies |-> Formation(2, {27}, Pos(-24, -600), Px(63), (27 :> 375)),
     bullets |-> PoolOf(BulletSlots,
                    (0 :> [px |-> Px(309), py |-> Pos(430, 25), vy |-> 1])),
     particles |-> freeParticles])

GamesInProgress ==
    {Duel(1), Duel(2), Skirmish, Patrol, LowFormation, Volley, Sweep(1), Sweep(-1),
     Crossfire, LastStand}

Init ==
    \E s \in {InitialState} \cup GamesInProgress :
        /\ playGame = s.playGame
        /\ gameOver = s.gameOver
        /\ currentWave = s.currentWave
        /\ enemyDir = s.enemyDir
        /\ ENEMY_SPEED_MULT = s.ENEMY_SPEED_MULT
        /\ player = s.player
        /\ enemies = s.enemies
        /\ bullets = s.bullets
        /\ particles = s.particles
        /\ pc = s.pc
        /\ delta = s.delta
        /\ keys = s.keys
        /\ delayed = s.delayed
        /\ bi = s.bi
        /\ playerRect = s.playerRect
        /\ frames = s.frames

-----------------------------------------------------------------------------
(* Actions: the statements of main's loop and of update, in program order *)

\* main: poll events, measure delta, call update
MainLoop ==
    /\ pc = "main"
    /\ frames < MaxFrames
    /\ keys' \in KeyStates
    /\ \E d \in Deltas :
        /\ delayed => d >= DelayMs
        /\ delta' = d
    /\ delayed' = FALSE
    /\ frames' = frames + 1
    /\ pc' = IF playGame THEN "updatePlayer" ELSE "checkGameStart"
    /\ UNCHANGED <<playGame, gameOver, currentWave, enemyDir, ENEMY_SPEED_MULT,
                   player, enemies, bullets, particles, bi, playerRect>>

\* update, menu branch: renderMenu(); checkGameStart();
CheckGameStart ==
    /\ pc = "checkGameStart"
    /\ playGame' = (playGame \/ keys.space)
    /\ delayed' = keys.space
    /\ pc' = "main"
    /\ UNCHANGED <<gameOver, currentWave, enemyDir, ENEMY_SPEED_MULT, player,
                   enemies, bullets, particles, delta, keys, bi, playerRect, frames>>

UpdatePlayer ==
    /\ pc = "updatePlayer"
    /\ \E r \in {updatePlayer(player, bullets, keys, delta)} :
           /\ player' = r.player
           /\ bullets' = r.bullets
    /\ pc' = "updateBullets"
    /\ UNCHANGED <<playGame, gameOver, currentWave, enemyDir, ENEMY_SPEED_MULT,
                   enemies, particles, delta, keys, delayed, bi, playerRect, frames>>

UpdateBullets ==
    /\ pc = "updateBullets"
    /\ \E r \in {updateBullets(bullets, particles, delta)} :
           /\ bullets' = r.bullets
           /\ particles' = r.particles
    /\ pc' = "updateEnemies"
    /\ UNCHANGED <<playGame, gameOver, currentWave, enemyDir, ENEMY_SPEED_MULT,
                   player, enemies, delta, keys, delayed, bi, playerRect, frames>>

\* the enemy step followed by enemyShoot, updateParticles left for later
UpdateEnemiesThenShoot ==
    /\ pc = "updateEnemies"
    /\ \E r \in {updateEnemies(enemies, enemyDir, ENEMY_SPEED_MULT, gameOver, delta)} :
           /\ enemies' = r.enemies
           /\ enemyDir' = r.enemyDir
           /\ ENEMY_SPEED_MULT' = r.mult
           /\ gameOver' = r.gameOver
    /\ pc' = "enemyShoot"
    /\ UNCHANGED <<playGame, currentWave, player, bullets, particles, delta, keys,
                   delayed, bi, playerRect, frames>>

UpdateEnemies ==
    /\ pc = "updateEnemies"
    /\ \E r \in {updateEnemies(enemies, enemyDir, ENEMY_SPEED_MULT, gameOver, delta)} :
           /\ enemies' = r.enemies
           /\ enemyDir' = r.enemyDir
           /\ ENEMY_SPEED_MULT' = r.mult
           /\ gameOver' = r.gameOver
    /\ pc' = "updateParticles"
    /\ UNCHANGED <<playGame, currentWave, player, bullets, particles, delta, keys,
                   delayed, bi, playerRect, frames>>

UpdateParticles ==
    /\ pc = "updateParticles"
    /\ particles' = updateParticles(particles, delta)
    /\ pc' = "enemyShoot"
    /\ UNCHANGED <<playGame, gameOver, currentWave, enemyDir, ENEMY_SPEED_MULT,
                   player, enemies, bullets, delta, keys, delayed, bi, playerRect, frames>>

\* the subsets of A with at most n members
RECURSIVE UpTo(_, _)
UpTo(A, n) ==
    IF n = 0 THEN {{}}
    ELSE LET S == UpTo(A, n - 1) IN S \cup {F \cup {a} : F \in S, a \in A}

\* the draws of one frame: a value of rand() % 5000 for every selected enemy
\* whose shootTimer is not positive (the draw of any other enemy decides
\* nothing), at most MaxShots of them below 10
Draws(es) ==
    LET armed == Armed(es)
        low == CHOOSE v \in RandValues : v < 10
        high == CHOOSE v \in RandValues : v >= 10
    IN  {[i \in armed |-> IF i \in F THEN low ELSE high] : F \in UpTo(armed, MaxShots)}

EnemyShoot ==
    /\ pc = "enemyShoot"
    /\ \E draws \in Draws(enemies) :
        \E r \in {enemyShoot(enemies, bullets, draws, delta)} :
            /\ enemies' = r.enemies
            /\ bullets' = r.bullets
    /\ pc' = "checkBulletCollisions"
    /\ UNCHANGED <<playGame, gameOver, currentWave, enemyDir, ENEMY_SPEED_MULT,
                   player, particles, delta, keys, delayed, bi, playerRect, frames>>

\* the first live bullet at or after slot i (the outer loop of
\* checkBulletCollisions does nothing for an empty slot), or MAX_PROJECTILES
NextBullet(bs, i) ==
    IF \E k \in i .. (MAX_PROJECTILES - 1) : bs[k] # NULL
    THEN CHOOSE k \in i .. (MAX_PROJECTILES - 1) :
             bs[k] # NULL /\ \A l \in i .. (k - 1) : bs[l] = NULL
    ELSE MAX_PROJECTILES

\* checkBulletCollisions, entry: the local playerRect
CheckBulletCollisions ==
    /\ pc = "checkBulletCollisions"
    /\ playerRect' = RectOf(player, PLAYER_WIDTH, PLAYER_HEIGHT)
    /\ bi' = NextBullet(bullets, 0)
    /\ pc' = "collideBullet"
    /\ UNCHANGED <<playGame, gameOver, currentWave, enemyDir, ENEMY_SPEED_MULT,
                   player, enemies, bullets, particles, delta, keys, delayed, frames>>

\* checkBulletCollisions, the iteration of the outer loop for live bullet bi
CollideBulletStep ==
    /\ pc = "collideBullet"
    /\ bi < MAX_PROJECTILES
    /\ \E s \in {CollideBullet([player |-> player, enemies |-> enemies,
                                  bullets |-> bullets, particles |-> particles,
                                  gameOver |-> gameOver], bi, playerRect)} :
           /\ player' = s.player
           /\ enemies' = s.enemies
           /\ bullets' = s.bullets
           /\ particles' = s.particles
           /\ gameOver' = s.gameOver
           /\ bi' = NextBullet(s.bullets, bi + 1)
    /\ UNCHANGED <<playGame, currentWave, enemyDir, ENEMY_SPEED_MULT, pc, delta, keys,
                   delayed, playerRect, frames>>

\* checkBulletCollisions, the outer loop is over
CollideDone ==
    /\ pc = "collideBullet"
    /\ bi >= MAX_PROJECTILES
    /\ bi' = 0
    /\ playerRect' = NoRect
    /\ pc' = "checkGameState"
    /\ UNCHANGED <<playGame, gameOver, currentWave, enemyDir, ENEMY_SPEED_MULT,
                   player, enemies, bullets, particles, delta, keys, delayed, frames>>

\* the state check of a program that goes back to the menu on a game over
CheckGameStateToMenu ==
    /\ pc = "checkGameState"
    /\ \E g \in {checkGameState([player |-> player, enemies |-> enemies,
                                   bullets |-> bullets, gameOver |-> gameOver,
                                   currentWave |-> currentWave])} :
           /\ player' = g.player
           /\ enemies' = g.enemies
           /\ bullets' = g.bullets
           /\ gameOver' = g.gameOver
           /\ currentWave' = g.currentWave
    /\ playGame' = ~gameOver
    /\ pc' = "render"
    /\ UNCHANGED <<enemyDir, ENEMY_SPEED_MULT, particles, delta, keys,
                   delayed, bi, playerRect, frames>>

CheckGameState ==
    /\ pc = "checkGameState"
    /\ \E g \in {checkGameState([player |-> player, enemies |-> enemies,
                                   bullets |-> bullets, gameOver |-> gameOver,
                                   currentWave |-> currentWave])} :
           /\ player' = g.player
           /\ enemies' = g.enemies
           /\ bullets' = g.bullets
           /\ gameOver' = g.gameOver
           /\ currentWave' = g.currentWave
    /\ pc' = "render"
    /\ UNCHANGED <<playGame, enemyDir, ENEMY_SPEED_MULT, particles, delta, keys,
                   delayed, bi, playerRect, frames>>

\* renderStats(); renderEntities(); SDL_RenderPresent: no program state
Render ==
    /\ pc = "render"
    /\ pc' = "main"
    /\ UNCHANGED <<playGame, gameOver, currentWave, enemyDir, ENEMY_SPEED_MULT,
                   player, enemies, bullets, particles, delta, keys, delayed, bi,
                   playerRect, frames>>

Next ==
    \/ MainLoop
    \/ CheckGameStart
    \/ UpdatePlayer
    \/ UpdateBullets
    \/ UpdateEnemies
    \/ UpdateParticles
    \/ EnemyShoot
    \/ CheckBulletCollisions
    \/ CollideBulletStep
    \/ CollideDone
    \/ CheckGameState
    \/ Render

Spec == Init /\ [][Next]_vars

-----------------------------------------------------------------------------
(* Spawning a wave: createEnemies on the freed pool, for every wave number *)
(* up to MaxWave                                                           *)

InitSpawn ==
    /\ currentWave \in 1 .. MaxWave
    /\ enemies = freeEnemies
    /\ pc = "createEnemies"
    /\ playGame = TRUE
    /\ gameOver = FALSE
    /\ enemyDir = 1
    /\ ENEMY_SPEED_MULT = MultUnit
    /\ player = createPlayer(NULL)
    /\ bullets = freeBullets
    /\ particles = freeParticles
    /\ delta = 0
    /\ keys = NoKeys
    /\ delayed = FALSE
    /\ bi = 0
    /\ playerRect = NoRect
    /\ frames = 0

CreateEnemies ==
    /\ pc = "createEnemies"
    /\ enemies' = createEnemies(currentWave)
    /\ pc' = "spawned"
    /\ UNCHANGED <<playGame, gameOver, currentWave, enemyDir, ENEMY_SPEED_MULT,
                   player, bullets, particles, delta, keys, delayed, bi, playerRect,
                   frames>>

NextSpawn == CreateEnemies

SpecSpawn == InitSpawn /\ [][NextSpawn]_vars

-----------------------------------------------------------------------------
(* The shooting scan: enemyShoot on formations of wave 1 in which one grid *)
(* column holds any of the 32 sets of rows and the other columns are all   *)
(* empty, all full or all down to their top row, with every bullet slot    *)
(* free or every one taken                                                 *)

Rows == 0 .. 4
Columns == 0 .. 10

\* shootTimers on either side of 0, and 0, spread over the grid
ScanTimer(i) ==
    LET k == ((i \div 11) + (i % 11)) % 3
    IN  IF k = 0 THEN 0 ELSE IF k = 1 THEN -100 ELSE 300

\* the slots of rows own in column c and of rows rest in the other columns
ScanLive(c, own, rest) ==
    {i \in EnemySlots : i \div 11 \in (IF i % 11 = c THEN own ELSE rest)}

\* a pool of 20 enemy bullets in flight
FullBullets ==
    [i \in BulletSlots |-> [px |-> Px(20 + 30 * i), py |-> Px(400), vy |-> 1]]

InitScan ==
    /\ \E c \in Columns, own \in SUBSET Rows, rest \in {{}, {0}, Rows} :
          enemies = Formation(1, ScanLive(c, own, rest), Pos(3, 700), Px(14),
                              [i \in EnemySlots |-> ScanTimer(i)])
    /\ bullets \in {freeBullets, FullBullets}
    /\ delta \in Deltas
    /\ pc = "enemyShoot"
    /\ playGame = TRUE
    /\ gameOver = FALSE
    /\ currentWave = 1
    /\ enemyDir = 1
    /\ ENEMY_SPEED_MULT = MultUnit + 2
    /\ player = [createPlayer(NULL) EXCEPT !.shootTimer = 500]
    /\ particles = freeParticles
    /\ keys = NoKeys
    /\ delayed = FALSE
    /\ bi = 0
    /\ playerRect = NoRect
    /\ frames = 1

\* the draws of one frame as rand() % 5000 would give them for any enemy,
\* at most MaxShots of them below 10, those among the enemies of two
\* neighbouring columns
ScanDraws(es) ==
    LET low == CHOOSE v \in RandValues : v < 10
        high == CHOOSE v \in RandValues : v >= 10
        c == CHOOSE c \in Columns :
                 /\ \E i \in EnemySlots : i % 11 = c /\ es[i] # NULL
                 /\ \A d \in Columns :
                       (\E i \in EnemySlots : i % 11 = d /\ es[i] # NULL) => c <= d
        near == {i \in EnemySlots : es[i] # NULL /\ i % 11 \in {c, c + 1}}
    IN  {[i \in EnemySlots |-> IF i \in F THEN low ELSE high] : F \in UpTo(near, MaxShots)}

ScanShoot ==
    /\ pc = "enemyShoot"
    /\ \E draws \in (IF NoEnemies(enemies) THEN {[i \in EnemySlots |-> 10]}
                     ELSE ScanDraws(enemies)) :
        \E r \in {enemyShoot(enemies, bullets, draws, delta)} :
            /\ enemies' = r.enemies
            /\ bullets' = r.bullets
    /\ pc' = "checkBulletCollisions"
    /\ UNCHANGED <<playGame, gameOver, currentWave, enemyDir, ENEMY_SPEED_MULT,
                   player, particles, delta, keys, delayed, bi, playerRect, frames>>

NextScan == ScanShoot

SpecScan == InitScan /\ [][NextScan]_vars

-----------------------------------------------------------------------------
(* Properties *)

LiveIn(pool) == {i \in DOMAIN pool : pool[i] # NULL}

\* es is the full grid of wave w: all 55 slots, slot i in column i mod 11
\* and row i div 11 of a 40-pixel grid from (100, 100), reward 10 * w
FullGrid(es, w) ==
    \A i \in EnemySlots :
        /\ es[i] # NULL
        /\ es[i].px = Px((i % 11) * 40 + 100)
        /\ es[i].py = Px((i \div 11) * 40 + 100)
        /\ es[i].killReward = 10 * w

\* C1: whenever checkGameState runs with the game-over flag set, afterwards
\* the high score is the larger of the old high score and the old score, the
\* score is 0, lives are 3, the player's cooldown is 0, the enemy pool is the
\* full 55-enemy grid of the unchanged wave number, every bullet slot is
\* empty and the flag is cleared.
C1_GameOverReset ==
    [][(pc = "checkGameState" /\ gameOver) =>
            /\ player'.hiScore = (IF player.hiScore >= player.score
                                  THEN player.hiScore ELSE player.score)
            /\ player'.score = 0
            /\ player'.livesLeft = 3
            /\ player'.shootTimer = 0
            /\ currentWave' = currentWave
            /\ FullGrid(enemies', currentWave)
            /\ \A i \in BulletSlots : bullets'[i] = NULL
            /\ gameOver' = FALSE]_vars

\* C1 witness: a game over with score 530 or 540 under the high score 540 has
\* been reset in wave 1 (score 0, high score kept, grid and bullets reset)
C1_Witness ==
    /\ pc = "render"
    /\ currentWave = 1
    /\ player.score = 0
    /\ player.hiScore = 540
    /\ player.livesLeft = 3
    /\ LiveIn(enemies) = EnemySlots
    /\ LiveIn(bullets) = {}

\* C2: a state check that starts with the game-over flag set never raises
\* the wave number, even when the enemy pool is empty at its start; the wave
\* number changes only in a state check without a game over, on an empty pool.
C2_NoWaveClearOnGameOver ==
    [][/\ (pc = "checkGameState" /\ gameOver) => currentWave' = currentWave
       /\ currentWave' # currentWave =>
            (pc = "checkGameState" /\ ~gameOver /\ NoEnemies(enemies))]_vars

\* C2 witness: the game over of a game that had destroyed all 55 enemies of
\* wave 1 (score 550 at the reset) has been handled and the wave is still 1
C2_Witness ==
    /\ pc = "render"
    /\ currentWave = 1
    /\ player.hiScore = 550
    /\ player.score = 0
    /\ LiveIn(enemies) = EnemySlots

\* C3: the wave-clear check (evaluated on the pool as the game-over branch
\* leaves it) changes state exactly when every enemy slot is empty: then the
\* wave number grows by 1, the pool is the full grid of the new wave and
\* lives are 3, with score, high score, position and bullets untouched;
\* otherwise wave number, enemy pool and lives are as the check found them.
C3_WaveClear ==
    [][pc = "checkGameState" =>
        IF gameOver
        THEN /\ currentWave' = currentWave
             /\ FullGrid(enemies', currentWave)
             /\ player'.livesLeft = 3
        ELSE IF NoEnemies(enemies)
        THEN /\ currentWave' = currentWave + 1
             /\ FullGrid(enemies', currentWave + 1)
             /\ player' = [player EXCEPT !.livesLeft = 3]
             /\ bullets' = bullets
        ELSE /\ currentWave' = currentWave
             /\ enemies' = enemies
             /\ player' = player
             /\ bullets' = bullets]_vars

\* C3 witness: wave 1 has been cleared with one life left and an enemy bullet
\* in flight: wave 2, lives 3, score 550 kept, the bullet still there
C3_Witness ==
    /\ pc = "render"
    /\ currentWave = 2
    /\ player.score = 550
    /\ player.livesLeft = 3
    /\ LiveIn(enemies) = EnemySlots
    /\ \E i \in BulletSlots : bullets[i] # NULL /\ bullets[i].vy = 1

-----------------------------------------------------------------------------
(* Collision resolution, one bullet at a time *)

\* the rect checkBulletCollisions builds for bullet b
BulletRect(b) == RectOf(b, BULLET_WIDTH, BULLET_HEIGHT)

\* the live enemies whose rect the rect r overlaps
Overlapped(es, r) ==
    {j \in EnemySlots :
        es[j] # NULL /\ SDL_HasIntersection(r, RectOf(es[j], ENEMY_WIDTH, ENEMY_HEIGHT))}

Lowest(S) == CHOOSE j \in S : \A k \in S : j <= k

\* the collision step is about to resolve live bullet bi
Resolving == pc = "collideBullet" /\ bi < MAX_PROJECTILES

\* what collision resolution reads and writes is left as it was
ResolverUnchanged == UNCHANGED <<player, enemies, bullets, particles, gameOver>>

\* C4: in collision resolution an enemy is released and score is added only
\* by a bullet of direction -1, and lives are decremented only by a bullet of
\* direction +1; a direction -1 bullet that overlaps the player rect and no
\* live enemy, and a direction +1 bullet that overlaps an enemy rect but not
\* the player rect, survive their resolution with no state change.
C4_Directionality ==
    [][Resolving =>
        LET b == bullets[bi]
            hit == Overlapped(enemies, BulletRect(b))
            onPlayer == SDL_HasIntersection(BulletRect(b), playerRect)
        IN  /\ (enemies' # enemies \/ player'.score # player.score) => b.vy = -1
            /\ player'.livesLeft # player.livesLeft => b.vy = 1
            /\ (b.vy = -1 /\ onPlayer /\ hit = {}) => ResolverUnchanged
            /\ (b.vy = 1 /\ hit # {} /\ ~onPlayer) => ResolverUnchanged]_vars

\* C4 as stated: every direction -1 bullet overlapping the player rect and
\* every direction +1 bullet overlapping an enemy rect is resolved with no
\* state change
C4_AlwaysSurvives ==
    [][Resolving =>
        LET b == bullets[bi]
            hit == Overlapped(enemies, BulletRect(b))
            onPlayer == SDL_HasIntersection(BulletRect(b), playerRect)
        IN  /\ (b.vy = -1 /\ onPlayer) => ResolverUnchanged
            /\ (b.vy = 1 /\ hit # {}) => ResolverUnchanged]_vars

\* C4 witness: the outer loop is over and has left in the pool a direction
\* -1 bullet over the player rect and a direction +1 bullet over a live enemy
C4_Witness ==
    /\ pc = "collideBullet"
    /\ bi >= MAX_PROJECTILES
    /\ \E i \in LiveIn(bullets) :
          bullets[i].vy = -1 /\ SDL_HasIntersection(BulletRect(bullets[i]), playerRect)
    /\ \E i \in LiveIn(bullets) :
          bullets[i].vy = 1 /\ Overlapped(enemies, BulletRect(bullets[i])) # {}

\* C5: resolving a direction -1 bullet that overlaps live enemies releases
\* the lowest-indexed of them and no other, adds that enemy's kill reward to
\* the score, releases the bullet and leaves the player otherwise alone
\* (no player test); no resolution releases more enemies than direction -1
\* bullets, so the enemies released by a whole collision step are at most
\* the direction -1 bullets live at its start.
C5_OneEnemyPerBullet ==
    [][Resolving =>
        LET b == bullets[bi]
            hit == Overlapped(enemies, BulletRect(b))
            shots(bs) == {i \in LiveIn(bs) : bs[i].vy = -1}
        IN  /\ (b.vy = -1 /\ hit # {}) =>
                /\ enemies' = [enemies EXCEPT ![Lowest(hit)] = NULL]
                /\ player' = [player EXCEPT
                                  !.score = @ + enemies[Lowest(hit)].killReward]
                /\ bullets' = [bullets EXCEPT ![bi] = NULL]
                /\ gameOver' = gameOver
            /\ LiveIn(enemies') \subseteq LiveIn(enemies)
            /\ shots(bullets') \subseteq shots(bullets)
            /\ Cardinality(LiveIn(enemies) \ LiveIn(enemies'))
                   <= Cardinality(shots(bullets) \ shots(bullets'))]_vars

\* C5 witness: the player's bullet of the Skirmish game met enemies 16 and 27
\* (one column, rows 40 pixels apart, both within its 15-pixel rect) in one
\* long frame: 16 is released for its 10 points, 27 is live, the bullet gone
C5_Witness ==
    /\ pc = "collideBullet"
    /\ bi > 0
    /\ player.score = 540
    /\ player.hiScore = 540
    /\ enemies[16] = NULL
    /\ enemies[27] # NULL
    /\ bullets[0] = NULL
    /\ \E k \in LiveIn(particles) :
          /\ particles[k].particleType = SHIP_EXPLOSION
          /\ particles[k].py = Px(IntCast(enemies[27].py) - 40)
          /\ SDL_HasIntersection(
                 [x |-> IntCast(particles[k].px), y |-> IntCast(particles[k].py) + 27,
                  w |-> BULLET_WIDTH, h |-> BULLET_HEIGHT],
                 RectOf(enemies[27], ENEMY_WIDTH, ENEMY_HEIGHT))

\* C6: resolving a direction +1 bullet that overlaps the player rect releases
\* the bullet, takes exactly one life, sets the game-over flag if the lives
\* are then <= 0 and leaves it as it was if they are not, and puts the
\* player at (320, 446) = (640/2, 480 - 480/14) whether or not the game is
\* over; score and high score are as before.
C6_PlayerHit ==
    [][(/\ Resolving
        /\ bullets[bi].vy = 1
        /\ SDL_HasIntersection(BulletRect(bullets[bi]), playerRect)) =>
            /\ bullets' = [bullets EXCEPT ![bi] = NULL]
            /\ player'.livesLeft = player.livesLeft - 1
            /\ gameOver' = (gameOver \/ player'.livesLeft <= 0)
            /\ player'.px = Px(320)
            /\ player'.py = Px(446)
            /\ player'.score = player.score
            /\ player'.hiScore = player.hiScore
            /\ enemies' = enemies]_vars

\* C6 as stated, of the flag after the hit: it is set exactly when the lives
\* are then <= 0
C6_FlagIffNoLives ==
    [][(/\ Resolving
        /\ bullets[bi].vy = 1
        /\ SDL_HasIntersection(BulletRect(bullets[bi]), playerRect)) =>
            (gameOver' <=> player'.livesLeft <= 0)]_vars

\* C6 witness: the last life has just been taken: no lives, the flag set,
\* the player at the spawn point and away from the rect that was hit
C6_Witness ==
    /\ pc = "collideBullet"
    /\ player.livesLeft = 0
    /\ gameOver
    /\ player.px = Px(320)
    /\ player.py = Px(446)
    /\ playerRect.x # 320
    /\ \E k \in LiveIn(particles) : particles[k].particleType = SHIP_EXPLOSION

-----------------------------------------------------------------------------
(* Spawning, rewards, pools, shooting *)

\* C7: for every wave number w >= 1, createEnemies fills all 55 slots, the
\* enemy of slot i at x = (i mod 11) * 40 + 100, y = (i div 11) * 40 + 100
\* (slot 0 at (100, 100), slot 10 at (500, 100), slot 11 at (100, 140)) with
\* a shootTimer of max(0.20, 1 - 0.05 * w) seconds: 0.95 for w = 1 and 0.20
\* for every w >= 16.
C7_SpawnGrid ==
    pc = "spawned" =>
        /\ \A i \in 0 .. 54 :
              /\ enemies[i] # NULL
              /\ enemies[i].px = Px((i % 11) * 40 + 100)
              /\ enemies[i].py = Px((i \div 11) * 40 + 100)
              /\ enemies[i].shootTimer =
                     (IF currentWave >= 16 THEN 200 ELSE 1000 - 50 * currentWave)
        /\ <<enemies[0].px, enemies[0].py>> = <<Px(100), Px(100)>>
        /\ <<enemies[10].px, enemies[10].py>> = <<Px(500), Px(100)>>
        /\ <<enemies[11].px, enemies[11].py>> = <<Px(100), Px(140)>>
        /\ currentWave = 1 => enemies[0].shootTimer = 950

\* C7 witness: wave 20 has been spawned, where 1 - 0.05 * w is 0 and the
\* shootTimer is the lower limit
C7_Witness ==
    /\ pc = "spawned"
    /\ currentWave = 20
    /\ LiveIn(enemies) = EnemySlots
    /\ enemies[54].shootTimer = 200

\* C8: in every state every live enemy's kill reward is 10 times the current
\* wave number, and resolving a bullet adds to the score exactly 10 times the
\* current wave number for every enemy it releases.
C8_KillReward ==
    /\ [](\A i \in LiveIn(enemies) : enemies[i].killReward = 10 * currentWave)
    /\ [][Resolving =>
            player'.score = player.score
                + 10 * currentWave * Cardinality(LiveIn(enemies) \ LiveIn(enemies'))]_vars

\* C8 witness: the last enemy of wave 2 has just been destroyed for 20
\* points, after 55 enemies at 10 and 54 at 20
C8_Witness ==
    /\ pc = "collideBullet"
    /\ currentWave = 2
    /\ NoEnemies(enemies)
    /\ player.score = 550 + 54 * 20 + 20

\* the steps that spawn bullets, and those that spawn particles
SpawnsBullets == pc \in {"updatePlayer", "enemyShoot"}
SpawnsParticles == pc \in {"updateBullets", "collideBullet"}

\* from pool old to pool new, every entity of old is kept, and a slot newly
\* filled is lower than every slot still empty
SpawnedLowest(old, new) ==
    /\ \A i \in LiveIn(old) : new[i] = old[i]
    /\ \A i \in LiveIn(new) \ LiveIn(old) :
          \A k \in DOMAIN new : new[k] = NULL => i < k

\* C9: a step that spawns bullets (particles) keeps every live bullet
\* (particle) as it is and fills the lowest-indexed empty slots only; when no
\* slot is empty the pool is left as it is and the step goes on; the pools
\* are always 55, 20 and 20 slots.
C9_PoolAllocation ==
    /\ [](/\ DOMAIN enemies = 0 .. 54
          /\ DOMAIN bullets = 0 .. 19
          /\ DOMAIN particles = 0 .. 19)
    /\ [][/\ SpawnsBullets =>
                /\ SpawnedLowest(bullets, bullets')
                /\ LiveIn(bullets) = BulletSlots => bullets' = bullets
                /\ pc' # pc
          /\ SpawnsParticles =>
                /\ SpawnedLowest(particles, particles')
                /\ LiveIn(particles) = ParticleSlots => particles' = particles]_vars

\* C9 witness: the player has fired (cooldown reset in this frame) into a
\* pool of 20 enemy bullets: no bullet of the player's is there
C9_Witness ==
    /\ pc = "updateBullets"
    /\ player.shootTimer = MsPerSecond - delta
    /\ LiveIn(bullets) = BulletSlots
    /\ \A i \in BulletSlots : bullets[i].vy = 1

\* the player shoots in the updatePlayer step about to be taken
Shoots == keys.space /\ player.shootTimer <= 0

\* the bullet the player creates from the position (x, y), both in 1/PosUnit
PlayerBullet(x, y) == [px |-> x, py |-> y, vy |-> -1]

\* bullets' is bullets with bullet b in one slot that was empty
OneMore(b) ==
    \E i \in BulletSlots : bullets[i] = NULL /\ bullets' = [bullets EXCEPT ![i] = b]

\* C10: in updatePlayer, with the shoot key held, shootTimer <= 0 and a free
\* slot, exactly one bullet is created, of direction -1, at the player's
\* position of this frame cut to whole pixels plus (10, 10), and the
\* shootTimer is set to 1.0 before the frame's decrement; with the key held
\* and shootTimer > 0, or without the key, no bullet is created; the
\* shootTimer loses delta in every frame.
C10_PlayerShoots ==
    [][pc = "updatePlayer" =>
        /\ player'.shootTimer =
               (IF Shoots THEN MsPerSecond ELSE player.shootTimer) - delta
        /\ (Shoots /\ LiveIn(bullets) # BulletSlots) =>
               OneMore(PlayerBullet(Px(IntCast(player'.px) + 10),
                                    Px(IntCast(player'.py) + 10)))
        /\ ~Shoots => bullets' = bullets]_vars

\* C10 as stated: the bullet is created at (player_x + 10, player_y + 10)
C10_BulletAtPlayerPosition ==
    [][(pc = "updatePlayer" /\ Shoots /\ LiveIn(bullets) # BulletSlots) =>
           OneMore(PlayerBullet(player'.px + Px(10), player'.py + Px(10)))]_vars

\* C10 witness: the player at x = 301.6 has fired: the bullet is at x = 311
C10_Witness ==
    /\ pc = "updateBullets"
    /\ player.px = Pos(301, 600)
    /\ player.shootTimer = MsPerSecond - delta
    /\ \E i \in LiveIn(bullets) : bullets[i] = PlayerBullet(Px(311), Px(456))

-----------------------------------------------------------------------------
(* The formation at the edges *)

\* the live enemies of es too close to the left edge, and to the right edge
LeftOffenders(es) == {i \in LiveIn(es) : es[i].px < Px(ENEMY_WIDTH)}
RightOffenders(es) == {i \in LiveIn(es) : es[i].px > Px(WINDOW_WIDTH - 2 * ENEMY_WIDTH)}

\* the enemy step about to be taken reverses the formation: after its move
\* some live enemy offends (the reversal itself leaves every x as it is)
Reverses == LeftOffenders(enemies') \cup RightOffenders(enemies') # {}

\* every live enemy goes down by dy in the step, and none appears or goes
MovedDown(dy) ==
    /\ LiveIn(enemies') = LiveIn(enemies)
    /\ \A i \in LiveIn(enemies) : enemies'[i].py = enemies[i].py + dy

\* C11: if after the move of the enemy step a live enemy has x < 30 or
\* x > 580, then in that step, once however many enemies offend, the
\* direction is negated, every live enemy's y grows by ENEMY_HEIGHT / 4 =
\* 7.5 pixels and the speed multiplier by 0.025; if none offends, direction,
\* enemy y positions and speed multiplier are as before the step.
C11_Reversal ==
    [][pc = "updateEnemies" =>
        IF Reverses
        THEN /\ enemyDir' = -enemyDir
             /\ MovedDown(Px(ENEMY_HEIGHT) \div 4)
             /\ ENEMY_SPEED_MULT' = ENEMY_SPEED_MULT + 1
        ELSE /\ enemyDir' = enemyDir
             /\ MovedDown(0)
             /\ ENEMY_SPEED_MULT' = ENEMY_SPEED_MULT]_vars

-----------------------------------------------------------------------------
(* Score *)

\* C12: in every state score and high score are >= 0; no step lowers the
\* high score (the game-over reset included); the score changes only in the
\* resolution of a bullet, by the kill reward of an enemy it releases, or in
\* a state check that finds the game-over flag set, to 0.
C12_Scores ==
    /\ [](player.score >= 0 /\ player.hiScore >= 0)
    /\ [][/\ player'.hiScore >= player.hiScore
          /\ player'.score # player.score =>
                \/ /\ Resolving
                   /\ \E j \in LiveIn(enemies) \ LiveIn(enemies') :
                         player'.score = player.score + enemies[j].killReward
                \/ /\ pc = "checkGameState"
                   /\ gameOver
                   /\ player'.score = 0]_vars

\* C12 witness: the formation of 22 reversals has come too low at 540 or
\* 550 points, under the high score of 550 of an earlier game: the reset has
\* made the score 0 and kept the high score
C12_Witness ==
    /\ pc = "render"
    /\ ENEMY_SPEED_MULT = MultUnit + 22
    /\ player.score = 0
    /\ player.hiScore = 550
    /\ LiveIn(enemies) = EnemySlots

-----------------------------------------------------------------------------
(* Particles *)

\* a particle pool with every slot taken, and the two extreme pools a run
\* may hold in place of its own
FullPool ==
    [i \in ParticleSlots |->
        [px |-> Px(0), py |-> Px(0), lifetime |-> MsPerSecond,
         particleType |-> SHIP_EXPLOSION]]
OtherPools == {freeParticles, FullPool}

\* the state of the game but for the particles
Gameplay ==
    <<playGame, gameOver, currentWave, enemyDir, ENEMY_SPEED_MULT, player, enemies,
      bullets>>

\* C13: particles have no effect on the game.  The steps that read the
\* particle pool (moving the bullets, resolving a bullet) leave the player,
\* the enemies, the bullets and the game-over flag as they would from the
\* same state with an empty or a full particle pool in place of the state's
\* own, and the particle step changes nothing but particles; so two runs
\* with the same inputs, deltas and draws that start from different particle
\* pools agree on everything else after every frame.
C13_ParticlesCosmetic ==
    [][/\ pc = "updateBullets" =>
            \A P \in OtherPools : updateBullets(bullets, P, delta).bullets = bullets'
       /\ Resolving =>
            \A P \in OtherPools :
                \E s \in {CollideBullet([player |-> player, enemies |-> enemies,
                                          bullets |-> bullets, particles |-> P,
                                          gameOver |-> gameOver], bi, playerRect)} :
                    /\ s.player = player'
                    /\ s.enemies = enemies'
                    /\ s.bullets = bullets'
                    /\ s.gameOver = gameOver'
       /\ pc = "updateParticles" => UNCHANGED Gameplay]_vars

\* C13 witness: the 20 bullets of the Volley game have left the screen in one
\* frame with one particle in the pool: the pool is full, the particle of
\* the last bullet was dropped, and every bullet is released all the same
C13_Witness ==
    /\ pc = "updateEnemies"
    /\ LiveIn(particles) = ParticleSlots
    /\ LiveIn(bullets) = {}
    /\ \E i \in ParticleSlots : particles[i].lifetime < MsPerSecond \div 2

-----------------------------------------------------------------------------
(* The order of a frame *)

\* the steps of update's playing branch as the code calls them, and as the
\* frame is described with the shooting decision ahead of the particles
CodeOrder ==
    <<"updatePlayer", "updateBullets", "updateEnemies", "updateParticles", "enemyShoot",
      "checkBulletCollisions", "collideBullet", "checkGameState", "render">>
ShootFirstOrder ==
    <<"updatePlayer", "updateBullets", "updateEnemies", "enemyShoot", "updateParticles",
      "checkBulletCollisions", "collideBullet", "checkGameState", "render">>

\* a step that leaves a statement of a playing frame goes on to the next of
\* order, from the last to main; main starts a playing frame at the first
FollowsOrder(order) ==
    /\ (pc = "main" /\ playGame /\ pc' # pc) => pc' = order[1]
    /\ \A k \in 1 .. Len(order) :
          (pc = order[k] /\ pc' # pc) =>
              pc' = (IF k < Len(order) THEN order[k + 1] ELSE "main")

\* what a step does to the entities: some particle ages, some enemy's
\* shootTimer runs, some bullet or enemy moves, a life is lost, a wave or a
\* game starts anew
ParticlesAge == \E i \in LiveIn(particles) : particles'[i] # particles[i]
TimersRun ==
    \E i \in LiveIn(enemies) \cap LiveIn(enemies') :
        enemies'[i].shootTimer # enemies[i].shootTimer
BulletsMove ==
    \E i \in LiveIn(bullets) \cap LiveIn(bullets') : bullets'[i].py # bullets[i].py
EnemiesMove ==
    \E i \in LiveIn(enemies) \cap LiveIn(enemies') : enemies'[i].px # enemies[i].px
Restarts == currentWave' # currentWave \/ (gameOver /\ ~gameOver')

\* each kind of effect belongs to one statement of the frame (a restart
\* makes new enemies, with other timers and places)
EffectsInPlace ==
    /\ ParticlesAge => pc = "updateParticles"
    /\ BulletsMove => pc = "updateBullets"
    /\ EnemiesMove => pc \in {"updateEnemies", "checkGameState"}
    /\ TimersRun => pc \in {"enemyShoot", "checkGameState"}
    /\ player'.livesLeft < player.livesLeft => pc = "collideBullet"
    /\ Restarts => pc = "checkGameState"

\* C14: in every playing frame the steps run in the order move player, move
\* bullets, move enemies (with the direction and speed update), move
\* particles, enemy shooting decision, resolve collisions, resolve game and
\* wave state, render: the particles are moved before the shooting decision,
\* and collisions are resolved before the state check.
C14_FrameOrder == [][FollowsOrder(CodeOrder) /\ EffectsInPlace]_vars

\* C14 as stated: the enemy shooting decision runs before the particles are
\* moved
C14_ShootBeforeParticles == [][FollowsOrder(ShootFirstOrder) /\ EffectsInPlace]_vars

\* C14 witness: in a frame of the Volley game the shooting decision is about
\* to be made: the particle has aged by the frame's delta, and no enemy's
\* shootTimer has run yet
C14_Witness ==
    /\ pc = "enemyShoot"
    /\ frames = 1
    /\ particles[0] # NULL
    /\ particles[0].lifetime = 276 - delta
    /\ enemies[54] # NULL
    /\ enemies[54].shootTimer = 776
    /\ enemies[44].shootTimer = -1424

-----------------------------------------------------------------------------
(* Enemy shooting *)

\* the enemies the shooting step about to be taken selects: those whose
\* shootTimer it changes (a selected enemy's timer loses the frame's delta,
\* from its old value or from 1.0)
Selected ==
    {i \in LiveIn(enemies) : enemies'[i] # NULL /\ enemies'[i].shootTimer # enemies[i].shootTimer}

Highest(S) == CHOOSE j \in S : \A k \in S : k <= j

\* C15: for every pattern of occupied enemy slots the shooting scan selects
\* at most 11 enemies, at most one per grid column (slot index mod 11), and
\* in every grid column with a live enemy exactly the live enemy of the
\* highest index (the bottom-most row); no enemy with a live enemy below it
\* in its column is selected.
C15_ShootSelection ==
    [][pc = "enemyShoot" =>
        \E sel \in {Selected}, live \in {LiveIn(enemies)} :
            /\ Cardinality(sel) <= 11
            /\ \A i, k \in sel : i % 11 = k % 11 => i = k
            /\ \A c \in Columns :
                  live \cap Column(c) # {} =>
                      sel \cap Column(c) = {Highest(live \cap Column(c))}
            /\ \A i \in sel : \A k \in live : (k % 11 = i % 11) => k <= i]_vars

\* C15 witness: the scan has run on a formation whose column 10 holds rows 1
\* and 3 only: the enemy of row 3 (slot 43) has been selected, that of row 1
\* (slot 21) has not
C15_Witness ==
    /\ pc = "checkBulletCollisions"
    /\ LiveIn(enemies) \cap Column(10) = {21, 43}
    /\ enemies[43].shootTimer = ScanTimer(43) - delta
    /\ enemies[21].shootTimer = ScanTimer(21)
    /\ \E i \in LiveIn(enemies) \cap Column(9) : enemies[i].shootTimer # ScanTimer(i)

\* the bottom-most live enemy of every grid column of es that has one
Bottoms(es) ==
    {Highest(LiveIn(es) \cap Column(c)) : c \in {d \in Columns : LiveIn(es) \cap Column(d) # {}}}

\* the enemies that fire in the shooting step about to be taken: their
\* shootTimer is set to 1.0 and then loses the frame's delta
Fired ==
    {i \in LiveIn(enemies) :
        /\ enemies'[i].shootTimer = MsPerSecond - delta
        /\ enemies[i].shootTimer # MsPerSecond}

\* the bullet createBullet makes for enemy e, and the one at e's position
EnemyBullet(e) == [px |-> Px(IntCast(e.px) + 15), py |-> Px(IntCast(e.py) + 15), vy |-> 1]
BulletFrom(e) == [px |-> e.px + Px(15), py |-> e.py + Px(15), vy |-> 1]

\* the slots of bullets created in the step
NewBullets == LiveIn(bullets') \ LiveIn(bullets)

\* C16: in the shooting step only a selected enemy (the bottom-most live one
\* of its column) with shootTimer <= 0 fires, and no more enemies than draws
\* fell below 10; an enemy that fires has its shootTimer set to 1.0, and
\* while slots are free the enemies that fire create one direction +1 bullet
\* each, at the enemy's position cut to whole pixels plus (15, 15), and no
\* other bullet is created or changed; every selected enemy's shootTimer
\* then loses delta, fired or not; any other live enemy is left as it is.
C16_EnemyFire ==
    [][pc = "enemyShoot" =>
        \E sel \in {Bottoms(enemies)}, fired \in {Fired}, new \in {NewBullets} :
            /\ fired \subseteq sel
            /\ \A i \in fired : enemies[i].shootTimer <= 0
            /\ Cardinality(fired) <= MaxShots
            /\ \A i \in LiveIn(enemies) :
                  enemies'[i] =
                      IF i \in fired
                      THEN [enemies[i] EXCEPT !.shootTimer = MsPerSecond - delta]
                      ELSE IF i \in sel
                      THEN [enemies[i] EXCEPT !.shootTimer = @ - delta]
                      ELSE enemies[i]
            /\ \A b \in LiveIn(bullets) : bullets'[b] = bullets[b]
            /\ \A b \in new : \E i \in fired : bullets'[b] = EnemyBullet(enemies[i])
            /\ Cardinality(new) =
                   (IF Cardinality(fired) <= MAX_PROJECTILES - Cardinality(LiveIn(bullets))
                    THEN Cardinality(fired)
                    ELSE MAX_PROJECTILES - Cardinality(LiveIn(bullets)))]_vars

\* C16 as stated: an enemy that fires creates one bullet at
\* (enemy_x + 15, enemy_y + 15)
C16_BulletAtEnemyPosition ==
    [][pc = "enemyShoot" =>
        \A i \in Fired : \E b \in NewBullets : bullets'[b] = BulletFrom(enemies[i])]_vars

\* C16 witness: an enemy at x = 103.7 has fired: its bullet is at x = 118,
\* its shootTimer 1.0 less delta; the selected enemy of the next column, its
\* shootTimer positive before the scan, has not fired and has lost delta
C16_Witness ==
    /\ pc = "checkBulletCollisions"
    /\ LiveIn(enemies) \cap Column(0) # {}
    /\ LiveIn(enemies) \cap Column(1) # {}
    /\ \E i \in {Highest(LiveIn(enemies) \cap Column(0))},
          k \in {Highest(LiveIn(enemies) \cap Column(1))} :
          /\ enemies[i].px = Pos(103, 700)
          /\ enemies[i].shootTimer = MsPerSecond - delta
          /\ bullets[0] = [px |-> Px(118), py |-> Px(IntCast(enemies[i].py) + 15), vy |-> 1]
          /\ ScanTimer(k) > 0
          /\ enemies[k].shootTimer = ScanTimer(k) - delta

-----------------------------------------------------------------------------
(* Bullets in flight *)

\* the y of bullet b after a frame of the state's delta: 275 pixels a second
NewY(b) == b.py + b.vy * 275 * delta * (PosUnit \div MsPerSecond)

\* y is off the screen for a bullet: above 0 or below 480 - 15
OffScreen(y) == y < Px(0) \/ y > Px(465)

\* the live bullets the bullet step about to be taken takes off the screen
Leaving == {i \in LiveIn(bullets) : OffScreen(NewY(bullets[i]))}

\* the bullet-impact particle of bullet b
ImpactOf(b) ==
    [px |-> b.px, py |-> NewY(b), lifetime |-> MsPerSecond \div 2,
     particleType |-> BULLET_EXPLOSION]

NewParticles == LiveIn(particles') \ LiveIn(particles)

\* C17: the bullet step gives every live bullet the y of its direction times
\* BULLET_SPEED times delta further on, x and direction as they were; a
\* bullet whose new y is < 0 or > 465 is released in that step, and while
\* particle slots are free a bullet-impact particle of lifetime 0.5 is
\* spawned where it went off (none once the pool is full).  At every frame
\* boundary every live bullet has 0 <= y <= 465, those the player or the
\* enemies created in the frame included.
C17_BulletFlight ==
    /\ [][pc = "updateBullets" =>
            \E gone \in {Leaving}, new \in {NewParticles}, free \in {ParticleSlots \ LiveIn(particles)} :
                /\ \A i \in BulletSlots :
                      bullets'[i] =
                          IF i \in LiveIn(bullets) \ gone
                          THEN [bullets[i] EXCEPT !.py = NewY(bullets[i])]
                          ELSE NULL
                /\ \A k \in LiveIn(particles) : particles'[k] = particles[k]
                /\ \A k \in new : \E i \in gone : particles'[k] = ImpactOf(bullets[i])
                /\ Cardinality(new) =
                       (IF Cardinality(gone) <= Cardinality(free)
                        THEN Cardinality(gone) ELSE Cardinality(free))]_vars
    /\ [](pc = "main" =>
            \A i \in LiveIn(bullets) : bullets[i].py >= Px(0) /\ bullets[i].py <= Px(465))

\* C17 as stated: every bullet that goes off the screen has its particle
C17_AlwaysAParticle ==
    [][pc = "updateBullets" =>
          \A i \in Leaving : \E k \in NewParticles : particles'[k] = ImpactOf(bullets[i])]_vars

\* C17 witness: a long frame of the wave-1 Duel game has taken the player's
\* bullet 137.5 pixels up, to y = 130.4, and the enemy's bullet off the
\* screen at y = 567.525, where its particle is
C17_Witness ==
    /\ pc = "updateEnemies"
    /\ currentWave = 1
    /\ bullets[0] = [px |-> Px(320), py |-> Pos(130, 400), vy |-> -1]
    /\ bullets[1] = NULL
    /\ particles[0] = [px |-> Px(309), py |-> Pos(567, 525),
                       lifetime |-> MsPerSecond \div 2,
                       particleType |-> BULLET_EXPLOSION]

-----------------------------------------------------------------------------
(* Menu and Playing *)

\* the entities and counters as init() leaves them
AsInitLeft ==
    /\ player = createPlayer(NULL)
    /\ enemies = createEnemies(1)
    /\ bullets = freeBullets
    /\ particles = freeParticles
    /\ currentWave = 1
    /\ enemyDir = 1
    /\ ENEMY_SPEED_MULT = MultUnit
    /\ ~gameOver

\* C18: the program starts in Menu (the state init() leaves, before any
\* frame, is a Menu state); in Menu no step changes the player, the enemies,
\* the bullets, the particles, the wave number, the direction or the speed
\* multiplier, so Menu always has them as init() left them; the only change
\* of mode is Menu -> Playing, in checkGameStart with the start key held;
\* once Playing, the program is Playing ever after, game-over and wave-clear
\* resets included.
C18_MenuThenPlaying ==
    /\ []((frames = 0 /\ AsInitLeft) => ~playGame)
    /\ [](~playGame => AsInitLeft)
    /\ [][~playGame =>
            UNCHANGED <<player, enemies, bullets, particles, currentWave, enemyDir,
                        ENEMY_SPEED_MULT>>]_vars
    /\ [][playGame' # playGame =>
            (~playGame /\ playGame' /\ pc = "checkGameStart" /\ keys.space)]_vars
    /\ [][(pc = "checkGameStart" /\ keys.space) => playGame']_vars
    /\ [][playGame => playGame']_vars

\* C18 witness: the start key was held in the first frame, in Menu, and the
\* second frame, 500 ms later, has been played on the first wave: the
\* formation has moved 10 pixels from where init() put it
C18_Witness ==
    /\ pc = "render"
    /\ frames = 2
    /\ playGame
    /\ delta >= DelayMs
    /\ currentWave = 1
    /\ player.score = 0
    /\ player.hiScore = 0
    /\ enemies[54] # NULL
    /\ enemies[54].shootTimer = 950 - delta
    /\ enemies[0] = [NewEnemy(0, 1) EXCEPT !.px = Px(110)]

-----------------------------------------------------------------------------
(* The end of a frame *)

\* C19: at the end of every playing frame, after the state check and before
\* rendering, the game-over flag is clear, lives are from 1 to 3 and some
\* enemy slot is occupied, whatever the frame did before (lives may be 0 or
\* less before the check, after one or several hits); a flag set by the
\* enemy step or by the collision step is cleared by the state check of the
\* same frame: no other step clears it, and the frame ends with it clear.
C19_FrameEnd ==
    /\ [](pc = "render" =>
            /\ ~gameOver
            /\ player.livesLeft >= 1
            /\ player.livesLeft <= 3
            /\ LiveIn(enemies) # {})
    /\ [](pc = "main" => ~gameOver)
    /\ [][(gameOver /\ ~gameOver') => pc = "checkGameState"]_vars
    /\ [][(~gameOver /\ gameOver') => pc \in {"updateEnemies", "collideBullet"}]_vars
    /\ [][(gameOver /\ pc # "checkGameState") => (gameOver' /\ frames' = frames)]_vars
    /\ [](player.livesLeft <= 0 =>
            (gameOver /\ pc \in {"collideBullet", "checkGameState"}))

\* C19 witness: both bullets of the Crossfire game hit the player on the last
\* life in one collision step (lives -1 before the state check); the frame
\* ends after the reset with the flag clear, 3 lives and the full grid
C19_Witness ==
    /\ pc = "render"
    /\ ENEMY_SPEED_MULT = MultUnit + 20
    /\ ~gameOver
    /\ player.livesLeft = 3
    /\ player.hiScore = 530
    /\ LiveIn(enemies) = EnemySlots
    /\ Cardinality({k \in LiveIn(particles) :
                       particles[k].particleType = SHIP_EXPLOSION}) = 2

-----------------------------------------------------------------------------
(* Turning at the edges *)

\* C20: a reversal turns the formation away from the edge that caused it,
\* whatever the deltas of the frames: when the direction flips with a live
\* enemy at x < 30 the direction after the flip is +1, when it flips with a
\* live enemy at x > 580 it is -1; and an edge that made one frame reverse
\* (an enemy is still beyond it when the next enemy step starts) does not
\* make the next frame reverse.
C20_TurnsAway ==
    [][pc = "updateEnemies" =>
        /\ (enemyDir' # enemyDir /\ LeftOffenders(enemies') # {}) => enemyDir' = 1
        /\ (enemyDir' # enemyDir /\ RightOffenders(enemies') # {}) => enemyDir' = -1
        /\ ~(LeftOffenders(enemies) # {} /\ LeftOffenders(enemies') # {})
        /\ ~(RightOffenders(enemies) # {} /\ RightOffenders(enemies') # {})]_vars

-----------------------------------------------------------------------------
(* Progress of a run: wave number and speed across game overs *)

\* C21: the game-over branch of the state check leaves the wave number, the
\* enemy direction, the speed multiplier and the particle pool as they are
\* (and the play flag with them); in every state the wave number is at least
\* 1 and the multiplier at least 1.0, and no step lowers either: the wave
\* number changes only by one, in a state check on an empty pool, and the
\* multiplier only by one step of 0.025, in updateEnemies, together with the
\* direction.
C21_ResetKeepsProgress ==
    /\ [](currentWave >= 1 /\ ENEMY_SPEED_MULT >= MultUnit)
    /\ [][/\ (pc = "checkGameState" /\ gameOver) =>
               /\ UNCHANGED <<currentWave, enemyDir, ENEMY_SPEED_MULT, particles,
                              playGame>>
               /\ ~gameOver'
          /\ currentWave' >= currentWave
          /\ ENEMY_SPEED_MULT' >= ENEMY_SPEED_MULT
          /\ currentWave' # currentWave =>
               /\ pc = "checkGameState"
               /\ NoEnemies(enemies)
               /\ currentWave' = currentWave + 1
          /\ (ENEMY_SPEED_MULT' # ENEMY_SPEED_MULT \/ enemyDir' # enemyDir) =>
               /\ pc = "updateEnemies"
               /\ ENEMY_SPEED_MULT' = ENEMY_SPEED_MULT + 1
               /\ enemyDir' = -enemyDir]_vars

\* C21 witness: the game of wave 2, heading left at 1.525 times the speed,
\* ended at 1630 points and has been reset: score 0, three lives, the grid of
\* wave 2, no bullet; wave, direction and speed are those of the lost game
\* and the particle of the last hit is still in the pool.
C21_Witness ==
    /\ pc = "render"
    /\ currentWave = 2
    /\ enemyDir = -1
    /\ ENEMY_SPEED_MULT = MultUnit + 21
    /\ player.score = 0
    /\ player.hiScore = 1630
    /\ player.livesLeft = 3
    /\ FullGrid(enemies, 2)
    /\ LiveIn(bullets) = {}
    /\ \E i \in ParticleSlots :
            particles[i] # NULL /\ particles[i].particleType = SHIP_EXPLOSION

====
